---- MODULE Spec2Model ----
(***************************************************************************)
(* Model of the NTX pack reader (ntx_pack.c): the storage shim             *)
(* read_appvar_bytes, the index decoder ntx_load_index, the naming         *)
(* convention ntx_part_name_from_id and the part/chunk resolver            *)
(* ntx_load_chunk_text.                                                    *)
(*                                                                         *)
(* Byte buffers are sequences of 0..255; buf + k in C is buf[k + 1] here.  *)
(* Heap blocks are numbered by the malloc/calloc call that produced them,  *)
(* 0 is NULL.  Every ti_Open, malloc and free is appended to the event log *)
(* ev.                                                                     *)
(***************************************************************************)
EXTENDS Integers, Sequences, FiniteSets, TLC

VARIABLES
    input,      \* the scenario the run was started with (never changes)
    storage,    \* the appvar store: name -> [present, data, got]
    pc,         \* position of the running call
    heap,       \* blocks allocated and not yet freed
    mallocs,    \* number of malloc/calloc calls made so far
    ev,         \* log of ti_Open / malloc / free events
    buf,        \* the local buffer: [blk, bytes]
    ret,        \* "none" while running, then "true" or "false"; "ub" after a
                \* read outside a buffer (undefined behaviour: no result is promised)
    err,        \* the reported reason: [msg, name]
    out,        \* ntx_load_index: *out  = [count, entries]
    entries,    \* ntx_load_index: local entries = [blk, arr]
    pos,        \* ntx_load_index: local pos
    i,          \* ntx_load_index: loop index
    note,       \* ntx_load_chunk_text: *note
    gci,        \* ntx_load_chunk_text: global_chunk_index
    p,          \* ntx_load_chunk_text: loop index over the parts
    chunk,      \* ntx_load_chunk_text: [text, len, split_kind] handed out
    ids,        \* ntx_part_name_from_id: the ids named
    names       \* ntx_part_name_from_id: the out_name buffers

vars == <<input, storage, pc, heap, mallocs, ev, buf, ret, err, out, entries,
          pos, i, note, gci, p, chunk, ids, names>>

----------------------------------------------------------------------------
(* Bounds of the model *)

MaxNotes == 2
MaxTitleLen == 2
MaxParts == 2
\* chunk-table entries of one note, over all its parts
MaxEntries == 3

(* Program constants *)

NTX_PART_HEADER_SIZE == 24
NTX_PART_ENTRY_SIZE == 8
IDX_HEADER_SIZE == 16
IDX_RECORD_SIZE == 14
NAME_BUF_SIZE == 9
U16 == 65536

NTX_INDEX_NAME == <<"N", "T", "X", "I", "D", "X">>
NTX_MAGIC_IDX == <<78, 84, 88, 73>>
NTX_MAGIC_PART == <<78, 84, 88, 80>>

Min(a, b) == IF a < b THEN a ELSE b

----------------------------------------------------------------------------
(* Byte cursor primitives *)

read_u8(b, off) == b[off + 1]

read_u16_le_lowonly(b, off) == b[off + 1]

read_u16_le(b, off) == (b[off + 1] + b[off + 2] * 256) % U16

read_u32_le(b, off) ==
    b[off + 1] + b[off + 2] * 256 + b[off + 3] * 65536 + b[off + 4] * 16777216

memcmp_eq(b, magic) == SubSeq(b, 1, 4) = magic

memcpy(b, off, n) == SubSeq(b, off + 1, off + n)

----------------------------------------------------------------------------
(* Naming convention: snprintf(out_name, 9, "NTX%04u", id) *)

DigitChar(d) == <<"0", "1", "2", "3", "4", "5", "6", "7", "8", "9">>[d + 1]

RECURSIVE Decimal(_)
Decimal(n) == IF n < 10 THEN <<DigitChar(n)>>
              ELSE Decimal(n \div 10) \o <<DigitChar(n % 10)>>

RECURSIVE ZeroPad(_, _)
ZeroPad(s, width) == IF Len(s) >= width THEN s ELSE ZeroPad(<<"0">> \o s, width)

\* snprintf writes at most size - 1 characters and then the terminator
snprintf(size, s) == SubSeq(s, 1, Min(Len(s), size - 1))

FormatPartName_unpadded(id) == <<"N", "T", "X">> \o Decimal(id)

FormatPartName(id) == <<"N", "T", "X">> \o ZeroPad(Decimal(id), 4)

ntx_part_name_from_id(id) == snprintf(NAME_BUF_SIZE, FormatPartName(id))

----------------------------------------------------------------------------
(* Heap and error helpers *)

NULL == 0
NullBuf == [blk |-> NULL, bytes |-> <<>>]
NoErr == [msg |-> "", name |-> <<>>]

set_err(msg) == [msg |-> msg, name |-> <<>>]
set_err_name(prefix, name) == [msg |-> prefix, name |-> name]

EvOpen(name) == [op |-> "open", name |-> name, blk |-> NULL]
EvMalloc(b) == [op |-> "malloc", name |-> <<>>, blk |-> b]
EvFree(b) == [op |-> "free", name |-> <<>>, blk |-> b]

\* the malloc/calloc call number n fails when the scenario says so
MallocFails(n) == input.failAt = n

RECURSIVE FreeEvents(_)
FreeEvents(blks) == IF blks = <<>> THEN <<>>
                    ELSE <<EvFree(Head(blks))>> \o FreeEvents(Tail(blks))

SeqRange(s) == {s[k] : k \in 1..Len(s)}

----------------------------------------------------------------------------
(* Storage access shim: read_appvar_bytes.  The result carries the buffer, *)
(* the reason, the events of the call and the heap block left allocated.   *)

ReadResult(ok, b, e, events, nm) ==
    [ok |-> ok, buf |-> b, err |-> e, ev |-> events, mallocs |-> nm]

read_appvar_bytes(name) ==
    LET obj == storage[name]
        sz == Len(obj.data)
        blk == mallocs + 1
    IN  IF ~obj.present
        THEN ReadResult(FALSE, NullBuf, set_err_name("open fail: ", name),
                        <<EvOpen(name)>>, 0)
        ELSE IF sz = 0
        THEN ReadResult(FALSE, NullBuf, set_err_name("empty var: ", name),
                        <<EvOpen(name)>>, 0)
        ELSE IF MallocFails(blk)
        THEN ReadResult(FALSE, NullBuf, set_err_name("oom reading ", name),
                        <<EvOpen(name)>>, 1)
        ELSE IF obj.got # sz
        THEN ReadResult(FALSE, NullBuf, set_err_name("short read: ", name),
                        <<EvOpen(name), EvMalloc(blk), EvFree(blk)>>, 1)
        ELSE ReadResult(TRUE, [blk |-> blk, bytes |-> obj.data], NoErr,
                        <<EvOpen(name), EvMalloc(blk)>>, 1)

----------------------------------------------------------------------------
(* Leaving a call: free the given blocks in order, set the result. *)

\* the n bytes at off lie inside b
InBounds(b, off, n) == off + n <= Len(b)

\* a read outside the buffer: undefined behaviour, the call has no defined result
Trap ==
    /\ pc' = "ub"
    /\ ret' = "ub"
    /\ UNCHANGED <<err, heap, ev>>

Return(r, e, freed) ==
    /\ ret' = r
    /\ err' = e
    /\ heap' = heap \ SeqRange(freed)
    /\ ev' = ev \o FreeEvents(freed)
    /\ pc' = "done"

----------------------------------------------------------------------------
(* Index decoder: ntx_load_index *)

NullEntries == [blk |-> NULL, arr |-> <<>>]
NullTitle == [blk |-> NULL, bytes |-> <<>>]

\* one element of calloc(note_count, sizeof(NtxNoteEntry))
ZeroEntry == [note_id |-> 0, first_part_id |-> 0, part_count |-> 0,
              total_chunks |-> 0, total_text_bytes |-> 0, title |-> NullTitle]

IndexVersion == read_u16_le(buf.bytes, 4)
IndexHdrSize == read_u16_le(buf.bytes, 6)
IndexNoteCount == read_u16_le(buf.bytes, 8)

IndexTooSmall(len) == len < IDX_HEADER_SIZE

IndexVersionOk(version, hdr_size) == version = 1 /\ hdr_size = IDX_HEADER_SIZE

RecordFits(ps, len) == ps + IDX_RECORD_SIZE <= len

TitleFits_offbyone(ps, title_len, len) == ps + title_len <= len + 1

TitleFits(ps, title_len, len) == ps + title_len <= len

\* for (j = 0; j < i; ++j) free(entries[j].title)
RECURSIVE TitleBlocks(_, _)
TitleBlocks(arr, n) == IF n = 0 THEN <<>>
                       ELSE TitleBlocks(arr, n - 1) \o <<arr[n].title.blk>>

\* the fields of the record at ps, with the title still to be allocated
DecodeRecord(b, ps) ==
    [note_id |-> read_u16_le(b, ps + 0),
     first_part_id |-> read_u16_le(b, ps + 2),
     part_count |-> read_u16_le(b, ps + 4),
     total_chunks |-> read_u16_le(b, ps + 6),
     total_text_bytes |-> read_u32_le(b, ps + 8),
     title |-> NullTitle]

\* malloc(title_len + 1), memcpy(title, buf + pos, title_len), title[title_len] = 0
TitleBuffer(b, ps, title_len) == memcpy(b, ps, title_len) \o <<0>>

UnchangedChunk == UNCHANGED <<note, gci, p, chunk>>
UnchangedName == UNCHANGED <<ids, names>>
UnchangedIndex == UNCHANGED <<out, entries, pos, i>>

\* lines 85-94
IndexRead ==
    /\ pc = "idx_start"
    /\ LET r == read_appvar_bytes(NTX_INDEX_NAME)
       IN  /\ out' = [count |-> 0, entries |-> NullEntries]
           /\ mallocs' = mallocs + r.mallocs
           /\ IF r.ok
              THEN /\ buf' = r.buf
                   /\ heap' = heap \cup {r.buf.blk}
                   /\ ev' = ev \o r.ev
                   /\ pc' = "idx_header"
                   /\ UNCHANGED <<ret, err>>
              ELSE /\ ret' = "false"
                   /\ err' = r.err
                   /\ ev' = ev \o r.ev
                   /\ pc' = "done"
                   /\ UNCHANGED <<buf, heap>>
    /\ UNCHANGED <<input, storage, entries, pos, i>>
    /\ UnchangedChunk /\ UnchangedName

\* lines 96-135
IndexHeader ==
    /\ pc = "idx_header"
    /\ LET len == Len(buf.bytes)
           blk == mallocs + 1
       IN  IF IndexTooSmall(len)
           THEN /\ Return("false", set_err("index too small"), <<buf.blk>>)
                /\ UNCHANGED <<mallocs, entries, pos, i>>
           ELSE IF ~InBounds(buf.bytes, 0, 10)
           THEN /\ Trap
                /\ UNCHANGED <<mallocs, entries, pos, i>>
           ELSE IF ~memcmp_eq(buf.bytes, NTX_MAGIC_IDX)
           THEN /\ Return("false", set_err("bad index magic"), <<buf.blk>>)
                /\ UNCHANGED <<mallocs, entries, pos, i>>
           ELSE IF ~IndexVersionOk(IndexVersion, IndexHdrSize)
           THEN /\ Return("false", set_err("index version mismatch"), <<buf.blk>>)
                /\ UNCHANGED <<mallocs, entries, pos, i>>
           ELSE IF IndexNoteCount = 0
           THEN /\ Return("true", err, <<buf.blk>>)
                /\ UNCHANGED <<mallocs, entries, pos, i>>
           ELSE IF MallocFails(blk)
           THEN /\ Return("false", set_err("oom entries"), <<buf.blk>>)
                /\ mallocs' = blk
                /\ UNCHANGED <<entries, pos, i>>
           ELSE /\ entries' = [blk |-> blk,
                               arr |-> [k \in 1..IndexNoteCount |-> ZeroEntry]]
                /\ mallocs' = blk
                /\ heap' = heap \cup {blk}
                /\ ev' = ev \o <<EvMalloc(blk)>>
                /\ pos' = IndexHdrSize
                /\ i' = 0
                /\ pc' = "idx_notes"
                /\ UNCHANGED <<ret, err>>
    /\ UNCHANGED <<input, storage, buf, out>>
    /\ UnchangedChunk /\ UnchangedName

\* lines 136-177: one iteration of the loop over the notes
IndexNote ==
    /\ pc = "idx_notes"
    /\ i < IndexNoteCount
    /\ LET len == Len(buf.bytes)
           blk == mallocs + 1
       IN  IF ~RecordFits(pos, len)
           THEN \* lines 138-144: entries and buf are freed, the titles are not
                /\ Return("false", set_err("truncated index"),
                          <<entries.blk, buf.blk>>)
                /\ UNCHANGED <<mallocs, entries, pos, i>>
           ELSE IF ~InBounds(buf.bytes, pos, 13)
           THEN /\ Trap
                /\ UNCHANGED <<mallocs, entries, pos, i>>
           ELSE LET rec == DecodeRecord(buf.bytes, pos)
                    title_len == read_u8(buf.bytes, pos + 12)
                    pos2 == pos + IDX_RECORD_SIZE
                    \* lines 146-150 have written entries[i] before the checks
                    arr2 == [entries.arr EXCEPT ![i + 1] = rec]
                IN  IF ~TitleFits(pos2, title_len, len)
                    THEN /\ Return("false", set_err("truncated title"),
                                   TitleBlocks(arr2, i) \o <<entries.blk, buf.blk>>)
                         /\ UNCHANGED <<mallocs, entries, pos, i>>
                    ELSE IF MallocFails(blk)
                    THEN /\ Return("false", set_err("oom title"),
                                   TitleBlocks(arr2, i) \o <<entries.blk, buf.blk>>)
                         /\ mallocs' = blk
                         /\ UNCHANGED <<entries, pos, i>>
                    ELSE IF ~InBounds(buf.bytes, pos2, title_len)
                    THEN /\ Trap
                         /\ mallocs' = blk
                         /\ UNCHANGED <<entries, pos, i>>
                    ELSE /\ entries' =
                              [entries EXCEPT !.arr =
                                  [arr2 EXCEPT ![i + 1].title =
                                      [blk |-> blk,
                                       bytes |-> TitleBuffer(buf.bytes, pos2, title_len)]]]
                         /\ mallocs' = blk
                         /\ heap' = heap \cup {blk}
                         /\ ev' = ev \o <<EvMalloc(blk)>>
                         /\ pos' = pos2 + title_len
                         /\ i' = i + 1
                         /\ UNCHANGED <<pc, ret, err>>
    /\ UNCHANGED <<input, storage, buf, out>>
    /\ UnchangedChunk /\ UnchangedName

\* lines 179-182
IndexFinish ==
    /\ pc = "idx_notes"
    /\ ~(i < IndexNoteCount)
    /\ out' = [count |-> IndexNoteCount, entries |-> entries]
    /\ Return("true", err, <<buf.blk>>)
    /\ UNCHANGED <<input, storage, buf, mallocs, entries, pos, i>>
    /\ UnchangedChunk /\ UnchangedName

----------------------------------------------------------------------------
(* Scenarios for ntx_load_index: an index container built from a list of   *)
(* title lengths, cut to a length, with at most one deviation.  The byte   *)
(* layout of the containers is the one the format documents: the builders  *)
(* below write it, the decoder above reads it.                             *)

EncU16(v) == <<v % 256, v \div 256>>
EncU32(v) == <<v % 256, (v \div 256) % 256, (v \div 65536) % 256, v \div 16777216>>

RECURSIVE Concat(_)
Concat(ss) == IF ss = <<>> THEN <<>> ELSE Head(ss) \o Concat(Tail(ss))

\* the title of note k: tl distinct bytes
TitleOf(k, tl) == [j \in 1..tl |-> 64 + 16 * k + j]

\* note k of a container (k = 1, 2, ...), fields above 255 so both bytes count
NoteOf(k, tl) ==
    [note_id |-> 256 + k,
     first_part_id |-> 1000 * k,
     part_count |-> 2 + k,
     total_chunks |-> 512 + 3 * k,
     total_text_bytes |-> 16909060 + k,
     title |-> TitleOf(k, tl)]

EncNote(n) ==
    EncU16(n.note_id) \o EncU16(n.first_part_id) \o EncU16(n.part_count)
    \o EncU16(n.total_chunks) \o EncU32(n.total_text_bytes)
    \o <<Len(n.title), 0>> \o n.title

NotesOf(titles) == [k \in 1..Len(titles) |-> NoteOf(k, titles[k])]

IndexBlob(titles, dev) ==
    (IF dev = "magic" THEN NTX_MAGIC_PART ELSE NTX_MAGIC_IDX)
    \o EncU16(IF dev = "version" THEN 2 ELSE 1)
    \o EncU16(IF dev = "hdrsize" THEN NTX_PART_HEADER_SIZE ELSE IDX_HEADER_SIZE)
    \o EncU16(Len(titles))
    \o <<0, 0, 0, 0, 0, 0>>
    \o Concat([k \in 1..Len(titles) |-> EncNote(NoteOf(k, titles[k]))])
    \o (IF dev = "trailing" THEN <<255, 254, 253>> ELSE <<>>)

TitleLists == UNION {[1..n -> 0..MaxTitleLen] : n \in 0..MaxNotes}

IndexDevs == {"ok", "trailing", "absent", "short", "magic", "version", "hdrsize", "oom"}

\* the malloc/calloc calls of one ntx_load_index: buf, entries, one per title
IndexMallocs == 2 + MaxNotes

IndexScenarios ==
    {[op |-> "index", titles |-> t, len |-> n, dev |-> d, failAt |-> f] :
        t \in TitleLists, n \in 0..(IDX_HEADER_SIZE + MaxNotes * (IDX_RECORD_SIZE + MaxTitleLen) + 3),
        d \in IndexDevs, f \in 0..IndexMallocs}

IndexScenarioOk(s) ==
    /\ s.len <= Len(IndexBlob(s.titles, s.dev))
    /\ (s.dev = "oom") = (s.failAt > 0)

IndexObject(s) ==
    LET data == SubSeq(IndexBlob(s.titles, s.dev), 1, s.len)
    IN  [present |-> s.dev # "absent",
         data |-> data,
         got |-> IF s.dev = "short" THEN Len(data) - 1 ELSE Len(data)]

IdleIndex == out = [count |-> 0, entries |-> NullEntries]
             /\ entries = NullEntries /\ pos = 0 /\ i = 0
IdleChunk == note = [first_part_id |-> 0, part_count |-> 0, total_chunks |-> 0]
             /\ gci = 0 /\ p = 0
             /\ chunk = [text |-> NullBuf, len |-> 0, split_kind |-> 0]
IdleName == ids = <<>> /\ names = <<>>
IdleCall == heap = {} /\ mallocs = 0 /\ ev = <<>> /\ buf = NullBuf
            /\ ret = "none" /\ err = NoErr

InitIndex ==
    /\ input \in IndexScenarios
    /\ IndexScenarioOk(input)
    /\ storage = [n \in {NTX_INDEX_NAME} |-> IndexObject(input)]
    /\ pc = "idx_start"
    /\ IdleCall /\ IdleIndex /\ IdleChunk /\ IdleName

NextIndex == IndexRead \/ IndexHeader \/ IndexNote \/ IndexFinish

SpecIndex == InitIndex /\ [][NextIndex]_vars

----------------------------------------------------------------------------
(* Claims about ntx_load_index, checked under SpecIndex *)

Finished == pc \in {"done", "ub"}

FullIndexLen == Len(IndexBlob(input.titles, input.dev))

\* the container of the scenario is well formed and was read whole, and no
\* allocation of the call was made to fail
WellFormedIndexRun ==
    /\ input.op = "index"
    /\ input.dev \in {"ok", "trailing"}
    /\ input.len = FullIndexLen

EntryMatches(e, n) ==
    /\ e.note_id = n.note_id
    /\ e.first_part_id = n.first_part_id
    /\ e.part_count = n.part_count
    /\ e.total_chunks = n.total_chunks
    /\ e.total_text_bytes = n.total_text_bytes
    /\ e.title.blk # NULL
    /\ e.title.bytes = n.title \o <<0>>

\* C1: for a well-formed index container (read whole, no allocation of the
\* call failing) ntx_load_index returns true with
\* out->count = note_count and entries[i] holding the fields and exactly the
\* title bytes of record i, in container order; with note_count = 0 it
\* returns true with count 0 and no entries.
C1_LoadIndexDecodes ==
    (Finished /\ WellFormedIndexRun) =>
        /\ ret = "true"
        /\ out.count = Len(input.titles)
        /\ Len(out.entries.arr) = Len(input.titles)
        /\ (Len(input.titles) = 0 => out.entries = NullEntries)
        /\ \A k \in 1..Len(input.titles) :
              EntryMatches(out.entries.arr[k], NotesOf(input.titles)[k])

C1_Witness ==
    /\ Finished /\ WellFormedIndexRun
    /\ Len(input.titles) = MaxNotes
    /\ \A k \in 1..MaxNotes : input.titles[k] = MaxTitleLen
    /\ ret = "true"
    /\ out.count = MaxNotes

\* the title blocks the local entries array points to
TitlesAllocated == {entries.arr[k].title.blk : k \in 1..Len(entries.arr)} \ {NULL}

\* C3: when decoding note i fails after the titles of notes 0..i-1 were
\* allocated, all of those titles have been released before ntx_load_index
\* returns false: no title allocation is live after a failed load.
C3_FailedLoadFreesTitles ==
    (pc = "done" /\ input.op = "index" /\ ret = "false") =>
        TitlesAllocated \cap heap = {}

\* C4: a well-formed index with note_count >= 1 whose records end at the end
\* of the blob, cut short by one or more bytes with the header left whole,
\* makes ntx_load_index return false with a truncation reason and hand out
\* no notes (the object is read whole and no allocation of the call fails).
TruncatedIndexRun ==
    /\ input.op = "index"
    /\ input.dev = "ok"
    /\ Len(input.titles) >= 1
    /\ input.len >= IDX_HEADER_SIZE
    /\ input.len < FullIndexLen

C4_TruncationFails ==
    (Finished /\ TruncatedIndexRun) =>
        /\ ret = "false"
        /\ err \in {set_err("truncated index"), set_err("truncated title")}
        /\ out = [count |-> 0, entries |-> NullEntries]

C4_Witness ==
    /\ Finished /\ TruncatedIndexRun
    /\ input.len = FullIndexLen - 1
    /\ input.titles[Len(input.titles)] >= 1
    /\ i >= 1
    /\ ret = "false"
    /\ err = set_err("truncated title")

----------------------------------------------------------------------------
(* Part/chunk resolver: ntx_load_chunk_text *)

NoChunk == [text |-> NullBuf, len |-> 0, split_kind |-> 0]

ChunkInRange_inclusive(g, n) == g <= n.total_chunks

\* line 216, negated: the requested index is inside the note's declared total
ChunkInRange(g, n) == g < n.total_chunks

PartIdOf_first(n, k) == n.first_part_id

\* line 225: (uint16_t)(note->first_part_id + p)
PartIdOf(n, k) == (n.first_part_id + k) % U16

PartHeaderBad_lenonly(b) == Len(b) < NTX_PART_HEADER_SIZE

\* line 232
PartHeaderBad(b) == Len(b) < NTX_PART_HEADER_SIZE \/ ~memcmp_eq(b, NTX_MAGIC_PART)

PartVersionOk(version, header_size) ==
    version = 1 /\ header_size = NTX_PART_HEADER_SIZE

\* lines 239-244
PartHeader(b) ==
    [version |-> read_u16_le(b, 4),
     header_size |-> read_u16_le(b, 6),
     chunk_count |-> read_u16_le(b, 14),
     chunk_table_off |-> read_u16_le(b, 16),
     payload_off |-> read_u16_le(b, 18),
     payload_size |-> read_u16_le(b, 20)]

PayloadFits(h, len) == h.payload_off + h.payload_size <= len

TableFits_unscaled(h, len) == h.chunk_table_off + h.chunk_count <= len

TableFits(h, len) ==
    h.chunk_table_off + h.chunk_count * NTX_PART_ENTRY_SIZE <= len

\* lines 267-271: the chunk-table entry c of the part
TableEntry(b, h, c) ==
    LET ent == h.chunk_table_off + c * NTX_PART_ENTRY_SIZE
    IN  [rel |-> read_u16_le(b, ent + 0),
         clen |-> read_u16_le(b, ent + 2),
         split_kind |-> read_u8(b, ent + 4),
         gidx |-> read_u16_le(b, ent + 6)]

EntryInBounds(b, h, c) ==
    InBounds(b, h.chunk_table_off + c * NTX_PART_ENTRY_SIZE, NTX_PART_ENTRY_SIZE)

\* line 273, negated
EntryIsMatch(e, g) == e.gidx = g

\* lines 265-274: the first entry at or after c whose global index is g;
\* chunk_count when there is none, -1 when an entry lies outside the buffer
RECURSIVE ScanTable(_, _, _, _)
ScanTable(b, h, c, g) ==
    IF ~(c < h.chunk_count) THEN h.chunk_count
    ELSE IF ~EntryInBounds(b, h, c) THEN -1
    ELSE IF EntryIsMatch(TableEntry(b, h, c), g) THEN c
    ELSE ScanTable(b, h, c + 1, g)

ChunkFits_nocheck(e, h) == TRUE

\* line 276, negated
ChunkFits(e, h) == e.rel + e.clen <= h.payload_size

ChunkText_fromstart(b, h, e) == memcpy(b, h.payload_off, e.clen) \o <<0>>

\* lines 291-292
ChunkText(b, h, e) == memcpy(b, h.payload_off + e.rel, e.clen) \o <<0>>

SkippedPartFrees_none(b) == <<>>

\* line 302: the buffer of a part without a match is freed
SkippedPartFrees(b) == <<b.blk>>

\* lines 232-263: the validation of a loaded part: "fail" with the reason
\* reported, "ub" when a header field lies outside the buffer, else "ok"
PartCheck(b) ==
    IF PartHeaderBad(b)
    THEN [r |-> "fail", err |-> set_err("bad part header")]
    ELSE IF ~InBounds(b, 0, 22)
    THEN [r |-> "ub", err |-> NoErr]
    ELSE LET h == PartHeader(b) IN
    IF ~PartVersionOk(h.version, h.header_size)
    THEN [r |-> "fail", err |-> set_err("part version mismatch")]
    ELSE IF ~PayloadFits(h, Len(b))
    THEN [r |-> "fail", err |-> set_err("part payload out of bounds")]
    ELSE IF ~TableFits(h, Len(b))
    THEN [r |-> "fail", err |-> set_err("part chunk table out of bounds")]
    ELSE [r |-> "ok", err |-> NoErr]

\* lines 206-220 (note, out_text and out_len are never NULL here)
ChunkStart ==
    /\ pc = "chk_start"
    /\ chunk' = NoChunk
    /\ IF ~ChunkInRange(gci, note)
       THEN /\ Return("false", set_err("chunk out of range"), <<>>)
            /\ UNCHANGED p
       ELSE /\ p' = 0
            /\ pc' = "chk_loop"
            /\ UNCHANGED <<ret, err, heap, ev>>
    /\ UNCHANGED <<input, storage, mallocs, buf, note, gci>>
    /\ UnchangedIndex /\ UnchangedName

\* lines 222-230: the next part object is read whole
ChunkLoadPart ==
    /\ pc = "chk_loop"
    /\ p < note.part_count
    /\ LET r == read_appvar_bytes(ntx_part_name_from_id(PartIdOf(note, p)))
       IN  /\ mallocs' = mallocs + r.mallocs
           /\ ev' = ev \o r.ev
           /\ IF r.ok
              THEN /\ buf' = r.buf
                   /\ heap' = heap \cup {r.buf.blk}
                   /\ pc' = "chk_scan"
                   /\ UNCHANGED <<ret, err, p>>
              ELSE /\ ret' = "false"
                   /\ err' = r.err
                   /\ pc' = "done"
                   /\ UNCHANGED <<buf, heap, p>>
    /\ UNCHANGED <<input, storage, note, gci, chunk>>
    /\ UnchangedIndex /\ UnchangedName

\* lines 232-302: the part is validated and its chunk table scanned
ChunkScanPart ==
    /\ pc = "chk_scan"
    /\ LET b == buf.bytes
           len == Len(b)
           blk == mallocs + 1
           v == PartCheck(b)
       IN  IF v.r = "fail"
           THEN /\ Return("false", v.err, <<buf.blk>>)
                /\ UNCHANGED <<mallocs, p, chunk, buf>>
           ELSE IF v.r = "ub"
           THEN /\ Trap
                /\ UNCHANGED <<mallocs, p, chunk, buf>>
           ELSE LET h == PartHeader(b)
                    c == ScanTable(b, h, 0, gci) IN
           IF c = -1
           THEN /\ Trap
                /\ UNCHANGED <<mallocs, p, chunk, buf>>
           ELSE IF c = h.chunk_count
           THEN \* line 302: no match in this part
                /\ heap' = heap \ SeqRange(SkippedPartFrees(buf))
                /\ ev' = ev \o FreeEvents(SkippedPartFrees(buf))
                /\ buf' = NullBuf
                /\ p' = p + 1
                /\ pc' = "chk_loop"
                /\ UNCHANGED <<mallocs, chunk, ret, err>>
           ELSE LET e == TableEntry(b, h, c) IN
           IF ~ChunkFits(e, h)
           THEN /\ Return("false", set_err("chunk payload out of bounds"), <<buf.blk>>)
                /\ UNCHANGED <<mallocs, p, chunk, buf>>
           ELSE IF MallocFails(blk)
           THEN /\ Return("false", set_err("oom chunk"), <<buf.blk>>)
                /\ mallocs' = blk
                /\ UNCHANGED <<p, chunk, buf>>
           ELSE IF ~InBounds(b, h.payload_off + e.rel, e.clen)
           THEN /\ Trap
                /\ mallocs' = blk
                /\ UNCHANGED <<p, chunk, buf>>
           ELSE /\ chunk' = [text |-> [blk |-> blk, bytes |-> ChunkText(b, h, e)],
                             len |-> e.clen,
                             split_kind |-> e.split_kind]
                /\ mallocs' = blk
                /\ heap' = (heap \cup {blk}) \ {buf.blk}
                /\ ev' = ev \o <<EvMalloc(blk), EvFree(buf.blk)>>
                /\ ret' = "true"
                /\ pc' = "done"
                /\ UNCHANGED <<err, p, buf>>
    /\ UNCHANGED <<input, storage, note, gci>>
    /\ UnchangedIndex /\ UnchangedName

\* lines 305-306: every part was scanned without a match
ChunkNotFound ==
    /\ pc = "chk_loop"
    /\ ~(p < note.part_count)
    /\ Return("false", set_err("chunk not found"), <<>>)
    /\ UNCHANGED <<input, storage, mallocs, buf, note, gci, p, chunk>>
    /\ UnchangedIndex /\ UnchangedName

----------------------------------------------------------------------------
(* Scenarios for ntx_load_chunk_text: a note whose parts are built from    *)
(* chunk tables (the global index of each entry, in table order), with at  *)
(* most one deviation: a faulty part, a chunk-table entry that overruns    *)
(* the payload, or a failing allocation.                                   *)

GIdx == {0, 1}
FirstIds == {100, 65535}
Requests == {[g |-> 0, total |-> 2], [g |-> 1, total |-> 2], [g |-> 1, total |-> 1]}

PartFaults == {"absent", "empty", "short", "tiny", "magic", "version", "hdrsize",
               "payload_oob", "table_oob"}

\* chunk c (1, 2, ...) of part k (1, 2, ...): length, bytes, split kind
ChunkLenOf(k, c) == (k + c) % 3
ChunkDataOf(k, c) == [j \in 1..ChunkLenOf(k, c) |-> 32 * k + 8 * c + j]
SplitOf(k, c) == 1 + ((2 * k + c) % 5)

RECURSIVE SumLens(_, _, _)
SumLens(k, from, to) == IF from > to THEN 0
                        ELSE ChunkLenOf(k, from) + SumLens(k, from + 1, to)

\* the payload holds the chunks in reverse table order
RelOf(k, table, c) == SumLens(k, c + 1, Len(table))
PayloadOf(k, table) ==
    Concat([c \in 1..Len(table) |-> ChunkDataOf(k, Len(table) + 1 - c)])

NoDev == [kind |-> "ok", part |-> 0, entry |-> 0]

PartBlob(k, table, dev) ==
    LET n == Len(table)
        fault == IF dev.part = k THEN dev.kind ELSE "ok"
        payload == PayloadOf(k, table)
        size == Len(payload)
        entry(c) ==
            EncU16(RelOf(k, table, c))
            \o EncU16(IF fault = "badentry" /\ dev.entry = c
                      THEN size - RelOf(k, table, c) + 1
                      ELSE ChunkLenOf(k, c))
            \o <<SplitOf(k, c), 0>>
            \o EncU16(table[c])
        blob ==
            (IF fault = "magic" THEN NTX_MAGIC_IDX ELSE NTX_MAGIC_PART)
            \o EncU16(IF fault = "version" THEN 2 ELSE 1)
            \o EncU16(IF fault = "hdrsize" THEN IDX_HEADER_SIZE
                      ELSE NTX_PART_HEADER_SIZE)
            \o <<0, 0, 0, 0, 0, 0>>
            \o EncU16(IF fault = "table_oob" THEN n + 1 + size \div NTX_PART_ENTRY_SIZE
                      ELSE n)
            \o EncU16(NTX_PART_HEADER_SIZE)
            \o EncU16(NTX_PART_HEADER_SIZE + n * NTX_PART_ENTRY_SIZE)
            \o EncU16(IF fault = "payload_oob" THEN size + 1 ELSE size)
            \o <<0, 0>>
            \o Concat([c \in 1..n |-> entry(c)])
            \o payload
    IN  IF fault = "empty" THEN <<>>
        ELSE IF fault = "tiny" THEN SubSeq(blob, 1, NTX_PART_HEADER_SIZE - 1)
        ELSE blob

PartObject(k, table, dev) ==
    LET data == PartBlob(k, table, dev)
        fault == IF dev.part = k THEN dev.kind ELSE "ok"
    IN  [present |-> fault # "absent",
         data |-> data,
         got |-> IF fault = "short" THEN Len(data) - 1 ELSE Len(data)]

AbsentObject == [present |-> FALSE, data |-> <<>>, got |-> 0]

Tables == UNION {[1..n -> GIdx] : n \in 0..MaxEntries}

RECURSIVE TotalEntries(_)
TotalEntries(l) == IF l = <<>> THEN 0 ELSE Len(Head(l)) + TotalEntries(Tail(l))

Layouts == UNION {{l \in [1..n -> Tables] : TotalEntries(l) <= MaxEntries} :
                    n \in 0..MaxParts}

Devs(l) ==
    {NoDev}
    \cup {[kind |-> f, part |-> k, entry |-> 0] : f \in PartFaults, k \in 1..Len(l)}
    \cup UNION {{[kind |-> "badentry", part |-> k, entry |-> c] : c \in 1..Len(l[k])} :
                    k \in 1..Len(l)}
    \cup {[kind |-> "oom", part |-> 0, entry |-> f] : f \in 1..(Len(l) + 1)}

\* the part ids a note starting at first can name, and two more
StoreIds(first) == {(first + k) % U16 : k \in 0..(MaxParts + 1)}

StorageOf(s) ==
    [n \in {ntx_part_name_from_id(id) : id \in StoreIds(s.first)} |->
        IF \E k \in 1..Len(s.layout) :
              n = ntx_part_name_from_id((s.first + k - 1) % U16)
        THEN LET k == CHOOSE k \in 1..Len(s.layout) :
                        n = ntx_part_name_from_id((s.first + k - 1) % U16)
             IN  PartObject(k, s.layout[k], s.dev)
        ELSE AbsentObject]

InitChunk ==
    /\ \E l \in Layouts, f \in FirstIds, r \in Requests :
         \E d \in Devs(l) :
            input = [op |-> "chunk", layout |-> l, first |-> f, req |-> r, dev |-> d,
                     failAt |-> IF d.kind = "oom" THEN d.entry ELSE 0]
    /\ storage = StorageOf(input)
    /\ note = [first_part_id |-> input.first, part_count |-> Len(input.layout),
               total_chunks |-> input.req.total]
    /\ gci = input.req.g
    /\ p = 0
    /\ chunk = [text |-> [blk |-> NULL, bytes |-> <<255>>], len |-> 255,
                split_kind |-> 255]
    /\ pc = "chk_start"
    /\ IdleCall /\ IdleIndex /\ IdleName

NextChunk == ChunkStart \/ ChunkLoadPart \/ ChunkScanPart \/ ChunkNotFound

SpecChunk == InitChunk /\ [][NextChunk]_vars

----------------------------------------------------------------------------
(* Claims about ntx_load_chunk_text, checked under SpecChunk *)

\* the names passed to ti_Open so far, in order
OpenNames ==
    LET opens == SelectSeq(ev, LAMBDA e : e.op = "open")
    IN  [j \in 1..Len(opens) |-> opens[j].name]

\* the places <<part, entry>> of the scenario's tables that hold global index g
Places(l) == UNION {{<<k, c>> : c \in 1..Len(l[k])} : k \in 1..Len(l)}
Occs(l, g) == {x \in Places(l) : l[x[1]][x[2]] = g}
Before(x, y) == x[1] < y[1] \/ (x[1] = y[1] /\ x[2] <= y[2])
FirstOcc(l, g) == CHOOSE x \in Occs(l, g) : \A y \in Occs(l, g) : Before(x, y)

ChunkRun == input.op = "chunk"
InRangeRun == ChunkRun /\ input.req.g < input.req.total

\* the call handed out the chunk the scenario placed at <<part, entry>> x
HandsOut(x) ==
    /\ ret = "true"
    /\ chunk.len = ChunkLenOf(x[1], x[2])
    /\ chunk.text.blk # NULL
    /\ chunk.text.bytes = ChunkDataOf(x[1], x[2]) \o <<0>>
    /\ chunk.split_kind = SplitOf(x[1], x[2])

\* C2: when the note's parts are well formed and hold exactly one entry with
\* the requested global index (below total_chunks), and no allocation of the
\* call fails, ntx_load_chunk_text
\* returns true with that entry's length, its bytes at payload_offset +
\* relative_offset and its split kind, wherever the entry is.
C2_LoadChunkReturnsEntry ==
    (Finished /\ InRangeRun /\ input.dev = NoDev
        /\ Cardinality(Occs(input.layout, gci)) = 1) =>
        HandsOut(FirstOcc(input.layout, gci))

C2_Witness ==
    /\ Finished /\ InRangeRun /\ input.dev = NoDev
    /\ Occs(input.layout, gci) = {<<2, 2>>}
    /\ ret = "true"
    /\ chunk.len > 0

\* C5: with global_chunk_index >= total_chunks the call returns false with
\* the out-of-range reason and performs no storage operation (no ti_Open, no
\* allocation), whatever part_count and first_part_id are.
C5_OutOfRangeNoStorage ==
    (ChunkRun /\ ~(gci < note.total_chunks)) =>
        /\ ev = <<>>
        /\ mallocs = 0
        /\ Finished => (ret = "false" /\ err = set_err("chunk out of range")
                        /\ chunk = NoChunk)

C5_Witness ==
    /\ Finished /\ ChunkRun
    /\ gci >= note.total_chunks
    /\ note.part_count = MaxParts
    /\ note.first_part_id = 65535
    /\ Occs(input.layout, gci) # {}
    /\ ret = "false"

\* C6: when the first entry (part order, then table order) with the requested
\* global index overruns the payload, the call returns false with the reason
\* "chunk payload out of bounds" and hands out no text; an overrunning entry
\* that is not that first match does not make the lookup fail.
C6_ChunkBoundsChecked ==
    (Finished /\ InRangeRun /\ input.dev.kind = "badentry"
        /\ Occs(input.layout, gci) # {}) =>
        IF <<input.dev.part, input.dev.entry>> = FirstOcc(input.layout, gci)
        THEN /\ ret = "false"
             /\ err = set_err("chunk payload out of bounds")
             /\ chunk = NoChunk
        ELSE HandsOut(FirstOcc(input.layout, gci))

C6_Witness ==
    /\ Finished /\ InRangeRun /\ input.dev.kind = "badentry"
    /\ <<input.dev.part, input.dev.entry>> = FirstOcc(input.layout, gci)
    /\ Len(input.layout[input.dev.part]) >= 2
    /\ ret = "false"
    /\ err = set_err("chunk payload out of bounds")

\* the names of the first n parts of the note, in the order of the ids
\* first_part_id, first_part_id + 1, ... (16-bit)
ExpectedNames(n) ==
    [j \in 1..n |-> ntx_part_name_from_id((input.first + j - 1) % U16)]

\* C7: the parts are opened one after the other in the order first_part_id,
\* first_part_id + 1, ..., first_part_id + part_count - 1; a well-formed part
\* without the requested index is skipped; the result comes from the first
\* part that has a matching entry; with none the call fails with "chunk not
\* found", also when global_chunk_index < total_chunks and part_count = 0.
C7_PartsVisitedInOrder ==
    ChunkRun =>
        /\ Len(OpenNames) <= note.part_count
        /\ OpenNames = ExpectedNames(Len(OpenNames))
        /\ (Finished /\ InRangeRun /\ input.dev = NoDev) =>
              IF Occs(input.layout, gci) # {}
              THEN /\ HandsOut(FirstOcc(input.layout, gci))
                   /\ Len(OpenNames) = FirstOcc(input.layout, gci)[1]
              ELSE /\ ret = "false"
                   /\ err = set_err("chunk not found")
                   /\ chunk = NoChunk
                   /\ Len(OpenNames) = note.part_count

C7_Witness ==
    /\ Finished /\ InRangeRun /\ input.dev = NoDev
    /\ note.first_part_id = 65535
    /\ note.part_count = 2
    /\ Len(input.layout[1]) >= 1
    /\ Occs(input.layout, gci) # {}
    /\ FirstOcc(input.layout, gci)[1] = 2
    /\ ret = "true"
    /\ OpenNames = <<ntx_part_name_from_id(65535), ntx_part_name_from_id(0)>>

\* the reason the call reports for a faulty part named n
FaultReason(kind, n) ==
    CASE kind = "absent" -> set_err_name("open fail: ", n)
      [] kind = "empty" -> set_err_name("empty var: ", n)
      [] kind = "short" -> set_err_name("short read: ", n)
      [] kind \in {"tiny", "magic"} -> set_err("bad part header")
      [] kind \in {"version", "hdrsize"} -> set_err("part version mismatch")
      [] kind = "payload_oob" -> set_err("part payload out of bounds")
      [] kind = "table_oob" -> set_err("part chunk table out of bounds")

\* no earlier part than k holds the requested index
ReachesPart(k) == \A x \in Occs(input.layout, gci) : x[1] >= k

\* C8: the first storage failure (open failure, zero size, short read) or
\* structural validation failure of a part ends the lookup with that
\* failure: no later part is opened, even if one holds the requested chunk,
\* and no part object is opened more than once.
C8_FirstFailureEndsLookup ==
    ChunkRun =>
        /\ \A a, b \in 1..Len(OpenNames) : OpenNames[a] = OpenNames[b] => a = b
        /\ (ret = "false" /\ err # set_err("chunk not found")
              /\ err # set_err("chunk out of range")) =>
              Len(OpenNames) = p + 1
        /\ (Finished /\ InRangeRun /\ input.dev.kind \in PartFaults
              /\ ReachesPart(input.dev.part)) =>
              /\ ret = "false"
              /\ err = FaultReason(input.dev.kind,
                                   ExpectedNames(input.dev.part)[input.dev.part])
              /\ Len(OpenNames) = input.dev.part
              /\ chunk = NoChunk

C8_Witness ==
    /\ Finished /\ InRangeRun
    /\ input.dev.kind = "magic" /\ input.dev.part = 1
    /\ note.part_count = 2
    /\ \E x \in Occs(input.layout, gci) : x[1] = 2
    /\ ret = "false"
    /\ Len(OpenNames) = 1

\* the blocks malloc'ed / freed by the events before position n of the log
MallocedBefore(n) == {ev[j].blk : j \in {j \in 1..(n - 1) : ev[j].op = "malloc"}}
FreedBefore(n) == {ev[j].blk : j \in {j \in 1..(n - 1) : ev[j].op = "free"}}
FreeCount(b) == Cardinality({j \in 1..Len(ev) : ev[j].op = "free" /\ ev[j].blk = b})

\* C9: at most one part buffer is allocated at any instant; the buffer of a
\* part is released exactly once before the next part is loaded; on every
\* return path no part buffer is left allocated and none was released twice;
\* on success the returned text is the only allocation left.
C9_OnePartBufferAtATime ==
    ChunkRun =>
        /\ heap = (IF pc = "chk_scan" THEN {buf.blk}
                   ELSE IF ret = "true" THEN {chunk.text.blk}
                   ELSE {})
        /\ pc = "chk_scan" => buf.blk # NULL
        /\ ret = "true" => (chunk.text.blk # NULL /\ chunk.text.blk # buf.blk)
        /\ \A n \in 1..Len(ev) :
              /\ ev[n].op = "open" =>
                    \A b \in MallocedBefore(n) : b \in FreedBefore(n) /\ FreeCount(b) = 1
              /\ ev[n].op = "free" =>
                    ev[n].blk \in MallocedBefore(n) /\ FreeCount(ev[n].blk) = 1
        /\ Finished => \A b \in MallocedBefore(Len(ev) + 1) \ heap : FreeCount(b) = 1

C9_Witness ==
    /\ Finished /\ ChunkRun
    /\ ret = "true"
    /\ Len(OpenNames) = 2
    /\ heap = {chunk.text.blk}
    /\ FreeCount(1) = 1 /\ FreeCount(2) = 1

----------------------------------------------------------------------------
(* Naming convention: two calls of ntx_part_name_from_id on a pair of ids *)

NameIds == {0, 1, 9, 10, 99, 100, 999, 1000, 9999, 10000, 12345, 65535}

InitName ==
    /\ \E a, b \in NameIds : ids = <<a, b>>
    /\ names = <<>>
    /\ input = [op |-> "name", failAt |-> 0]
    /\ storage = [n \in {NTX_INDEX_NAME} |-> AbsentObject]
    /\ pc = "name"
    /\ IdleCall /\ IdleIndex /\ IdleChunk

\* lines 196-201: the next id of the pair is named
NamePart ==
    /\ pc = "name"
    /\ names' = Append(names, ntx_part_name_from_id(ids[Len(names) + 1]))
    /\ pc' = IF Len(names) + 1 = Len(ids) THEN "done" ELSE "name"
    /\ UNCHANGED <<input, storage, heap, mallocs, ev, buf, ret, err, ids>>
    /\ UnchangedIndex /\ UnchangedChunk

NextName == NamePart

SpecName == InitName /\ [][NextName]_vars

DigitVal(ch) == CHOOSE d \in 0..9 : DigitChar(d) = ch
IsDigit(ch) == \E d \in 0..9 : DigitChar(d) = ch

RECURSIVE ParseDecimal(_)
ParseDecimal(s) == IF s = <<>> THEN 0
                   ELSE 10 * ParseDecimal(SubSeq(s, 1, Len(s) - 1)) + DigitVal(s[Len(s)])

\* a name is "NTX", then decimal digits whose value is id, and its terminator
\* lies inside the 9-byte out_name
NameEmbeds(nm, id) ==
    /\ Len(nm) + 1 <= NAME_BUF_SIZE
    /\ Len(nm) >= 4
    /\ SubSeq(nm, 1, 3) = <<"N", "T", "X">>
    /\ \A k \in 4..Len(nm) : IsDigit(nm[k])
    /\ ParseDecimal(SubSeq(nm, 4, Len(nm))) = id

NamedBoth == pc = "done" /\ input.op = "name" /\ Len(names) = 2

\* C10 as stated: every id in 0..65535 gets a name of one fixed width, "NTX"
\* and the zero-padded decimal id, terminated inside the 9 bytes, depending
\* only on the id, distinct for distinct ids.
C10_FixedWidth ==
    NamedBoth =>
        /\ Len(names[1]) = Len(names[2])
        /\ NameEmbeds(names[1], ids[1]) /\ NameEmbeds(names[2], ids[2])
        /\ (ids[1] = ids[2]) = (names[1] = names[2])

\* C10 amended: the name is "NTX" and the decimal id zero-padded to four
\* digits: 7 characters for ids up to 9999, 8 characters for 10000..65535;
\* it is terminated inside the 9 bytes, depends only on the id, and distinct
\* ids give distinct names.
C10_PaddedToFourDigits ==
    NamedBoth =>
        /\ \A k \in 1..2 :
              /\ NameEmbeds(names[k], ids[k])
              /\ Len(names[k]) = (IF ids[k] <= 9999 THEN 7 ELSE 8)
        /\ (ids[1] = ids[2]) = (names[1] = names[2])

C10_Witness ==
    /\ NamedBoth
    /\ ids = <<9999, 10000>>
    /\ Len(names[1]) = 7
    /\ Len(names[2]) = 8

----------------------------------------------------------------------------
(* The error taxonomy *)

\* the kind of the taxonomy each fault of a part belongs to
KindOfFault(f) ==
    CASE f \in {"absent", "short"} -> "storage-unavailable"
      [] f \in {"empty", "tiny"} -> "empty-or-undersized"
      [] f = "magic" -> "bad-magic"
      [] f \in {"version", "hdrsize"} -> "unsupported-version"
      [] f \in {"payload_oob", "table_oob", "badentry"} -> "out-of-bounds"

\* the faults found by the validation of a part that was read whole
StructuralFaults == {"tiny", "magic", "version", "hdrsize", "payload_oob", "table_oob"}

\* the reason the validation reports for the scenario's faulty part, had its
\* fault been f
ReasonOfFault(f) ==
    PartCheck(PartBlob(input.dev.part, input.layout[input.dev.part],
                       [input.dev EXCEPT !.kind = f])).err

\* C11: every failure reports a reason that identifies one kind of the error
\* taxonomy, and failures of different kinds never report the same reason;
\* in particular a part shorter than the 24-byte header and a part with a
\* wrong magic tag are reported differently.
C11_ReasonNamesOneKind ==
    (Finished /\ InRangeRun /\ ret = "false"
        /\ input.dev.kind \in StructuralFaults /\ ReachesPart(input.dev.part)) =>
        /\ err = ReasonOfFault(input.dev.kind)
        /\ \A f \in StructuralFaults :
              KindOfFault(f) # KindOfFault(input.dev.kind) => ReasonOfFault(f) # err

----------------------------------------------------------------------------
(* Containers with arbitrary field values: what the header, the records    *)
(* and the chunk table declare need not fit the bytes that are there.      *)

\* an index declaring count notes, each record declaring lie more title
\* bytes than it has
SkewedIndexBlob(titles, count, lie) ==
    NTX_MAGIC_IDX \o EncU16(1) \o EncU16(IDX_HEADER_SIZE) \o EncU16(count)
    \o <<0, 0, 0, 0, 0, 0>>
    \o Concat([k \in 1..Len(titles) |->
                 LET n == NoteOf(k, titles[k])
                 IN  EncU16(n.note_id) \o EncU16(n.first_part_id)
                     \o EncU16(n.part_count) \o EncU16(n.total_chunks)
                     \o EncU32(n.total_text_bytes)
                     \o <<titles[k] + lie, 0>> \o n.title])

SkewedCounts == {0, 1, MaxNotes + 1, 257}
SkewedLies == {0, 1, 200}

InitSkewedIndex ==
    /\ \E t \in TitleLists, c \in SkewedCounts, l \in SkewedLies :
         \E n \in 1..Len(SkewedIndexBlob(t, c, l)) :
            input = [op |-> "skewed_index", titles |-> t, count |-> c, lie |-> l,
                     len |-> n, failAt |-> 0]
    /\ storage = [n \in {NTX_INDEX_NAME} |->
                    LET data == SubSeq(SkewedIndexBlob(input.titles, input.count,
                                                       input.lie), 1, input.len)
                    IN  [present |-> TRUE, data |-> data, got |-> Len(data)]]
    /\ pc = "idx_start"
    /\ IdleCall /\ IdleIndex /\ IdleChunk /\ IdleName

\* a part of up to 40 bytes: a header with the given fields, then two chunk
\* table entries with the given offset, length and global index
SkewedPartBlob(s) ==
    LET entry == EncU16(s.rel) \o EncU16(s.clen) \o <<7, 0>> \o EncU16(s.gidx)
    IN  SubSeq(NTX_MAGIC_PART \o EncU16(1) \o EncU16(NTX_PART_HEADER_SIZE)
               \o <<0, 0, 0, 0, 0, 0>>
               \o EncU16(s.count) \o EncU16(s.toff) \o EncU16(s.poff)
               \o EncU16(s.psize) \o <<0, 0>> \o entry \o entry,
               1, s.len)

SkewedLens == {23, 24, 40}
SkewedCountValues == {0, 1, 2, 65535}
SkewedNumbers == {0, 1, 65535}
SkewedTableOffsets(len) == {0, 24, len - 8, len - 7, 65535}
SkewedPayloadOffsets(len) == {0, 24, len - 1, len, 65535}
SkewedSizes(len) == {0, 1, len - 24, len, 65535}

InitSkewedChunk ==
    /\ \E len \in SkewedLens, c \in SkewedCountValues, g \in {1, 258},
          r \in SkewedNumbers, cl \in SkewedNumbers :
         \E to \in SkewedTableOffsets(len), po \in SkewedPayloadOffsets(len),
            ps \in SkewedSizes(len) \cap 0..(U16 - 1) :
            input = [op |-> "skewed_chunk", len |-> len, count |-> c, toff |-> to,
                     poff |-> po, psize |-> ps, rel |-> r, clen |-> cl, gidx |-> g,
                     failAt |-> 0]
    /\ storage = [n \in {ntx_part_name_from_id(100)} |->
                    [present |-> TRUE, data |-> SkewedPartBlob(input),
                     got |-> Len(SkewedPartBlob(input))]]
    /\ note = [first_part_id |-> 100, part_count |-> 1, total_chunks |-> 2]
    /\ gci = 1
    /\ p = 0
    /\ chunk = [text |-> [blk |-> NULL, bytes |-> <<255>>], len |-> 255,
                split_kind |-> 255]
    /\ pc = "chk_start"
    /\ IdleCall /\ IdleIndex /\ IdleName

InitReads == InitIndex \/ InitChunk \/ InitSkewedIndex \/ InitSkewedChunk

NextReads == NextIndex \/ NextChunk

SpecReads == InitReads /\ [][NextReads]_vars

\* C12: whatever the content and length of the index blob and of a part
\* blob, every byte the two calls read from the loaded buffer lies below the
\* buffer's length: no call reaches a read outside its buffer, and a text or
\* title handed out consists of bytes of the buffer.
C12_ReadsInsideBuffer ==
    /\ pc # "ub"
    /\ ret # "ub"
    /\ (pc = "idx_notes" /\ i <= IndexNoteCount) => pos <= Len(buf.bytes)
    /\ (ret = "true" /\ input.op = "skewed_chunk") =>
          /\ input.poff + input.rel + chunk.len <= input.len
          /\ chunk.text.bytes =
                SubSeq(SkewedPartBlob(input), input.poff + input.rel + 1,
                       input.poff + input.rel + chunk.len) \o <<0>>

C12_Witness ==
    /\ pc = "done"
    /\ input.op = "skewed_chunk"
    /\ ret = "true"
    /\ input.toff = input.len - 8
    /\ input.poff + input.rel + chunk.len = input.len
    /\ chunk.len >= 1

====
